---- MODULE Spec2Model ----
(***************************************************************************)
(* Hanoverd: the handover state machine of main.go (loop, flipper, flip),  *)
(* container.go (Container.Run and its goroutines) and the iptables        *)
(* package (ConfigureRedirect).                                            *)
(*                                                                         *)
(* Every goroutine of the program is a process of the model.  A goroutine  *)
(* runs at an arbitrary moment after it became runnable, and a select with *)
(* several ready cases takes any of them.                                  *)
(***************************************************************************)
EXTENDS Integers, Sequences, FiniteSets, TLC

\* Number of events the environment produces in one run: a trigger, a failure
\* (an Obtain, Create or Start error, a log stream error, a failed probe, a
\* failed flip), or the shutdown signal.  The exit of a container is free.
MaxEvents == 3
\* Size of options.portBindings: internal ports, and host bindings per port.
NumPorts == 2
BindingsPerPort == 1

\* Exposed ports of a container (one poller each), and polls one poller makes.
MaxExposed == 2
MaxPolls == 2
\* Length of an image name.
MaxNameLen == 4
\* Submodules in one .gitmodules file, and cores of the machine.
MaxSubs == 2
MaxCores == 2

Gens == 0 .. (MaxEvents - 1)
Nil == -1
Ports == 1 .. NumPorts
\* One (internal port, binding) pair of options.portBindings.
Slots == Ports \X (1 .. BindingsPerPort)
Chains == {"PREROUTING", "OUTPUT"}
\* One iptables rule: the slot it redirects and the chain it sits in.
Rule == Slots \X Chains
\* The pollers of AwaitListening, one per exposed port.
Pollers == 1 .. MaxExposed
\* The characters of an image name: the separators imageRef looks for, and one
\* that stands for every other character.
Chars == {"/", ":", "@", "a"}
RECURSIVE NamesOf(_)
NamesOf(n) ==
    IF n = 0 THEN {<<>>}
    ELSE NamesOf(n - 1) \cup {Append(w, ch) : w \in {v \in NamesOf(n - 1) : Len(v) = n - 1}, ch \in Chars}
Names == NamesOf(MaxNameLen)
Subs == 1 .. MaxSubs

VARIABLES
    disableOverlap,  \* options.disableOverlap
    i,               \* loop: generation counter
    lpc,             \* loop: "idle" | "sendnil" (blocked in flips <- nil) | "spawn"
    dying,           \* ActionRun: the dying barrier
    crashed,         \* a goroutine panicked: the process is gone
    exited,          \* ActionRun has returned: the process has exited with status 0
    faults,          \* failures (and the shutdown) the environment has produced so far
    failed, superceded, obtained, ready, closing,  \* Container barriers
    rpc,             \* Container.Run: "none" | "obtain" | "create" | "start" | "wait" |
                     \* "closed" (returning: c.errorsW is closed) | "done"
    wpc,             \* fate watcher of loop: "none" | "select" | "send" | "done"
    apc,             \* AwaitListening goroutine of Run: "none" | "polling" | "done"
    cpc,             \* CopyOutput goroutine of Run: "none" | "run" | "sent" | "done"
    drain,           \* error drain of Run holds a received error
    sendq,           \* senders blocked on the unbuffered channel flips, in order
    fpc,             \* flipper: "recv" | "err" (inside container.err of a failed flip)
    cur,             \* flipper: the candidate whose flip failed
    live,            \* flipper: live
    grace,           \* generations a grace goroutine of flipper is sleeping for
    rules,           \* iptables rules present on the host, per generation
    removal,         \* flip: removal, the inverses collected for the generation
    rem,             \* removal goroutine of flip: "none" | "wait" | "done"
    invoked,         \* history: inverses invoked by the removal goroutine
    handed,          \* history: candidates received by flipper, in order
    promoted,        \* history: candidates made live, in order
    readyOrder,      \* history: the generations whose fate is undecided or that
                     \* wait in flips, in the order their Ready fell, and the
                     \* promoted generations that overtook one of them
    supFirst,        \* history: the generations, undecided or waiting in flips,
                     \* whose Superceded fell before their Ready
    evObtained,      \* UpdateEvent.Obtained of the event each generation was created for
    exposed,         \* AwaitListening: len(c.containerInfo.NetworkSettings.Ports), Nil
                     \* before AwaitListening has read it
    pol,             \* AwaitListening: each poller goroutine, "none" | "poll" (in
                     \* poll) | "sleep" (between polls) | "offer" (in the select that
                     \* sends on success) | "gaveup" | "won" | "lost" | "stopped"
    polls,           \* AwaitListening: polls each poller has made
    resp,            \* history: the last response each poller got
    awl,             \* AwaitListening: "none" | "select" | "noports" | "ok" |
                     \* "nopollers" | "closing" | "timeout"
    imageName,       \* Create: the image name Obtain returned
    ref,             \* Create: what imageRef made of it, <<>> before the call
    ret,             \* Container.Run: what it returned, "none" | "-2" | "-1" |
                     \* "wait" (the result of c.Wait)
    deleted,         \* Container.Run: c.Delete() was called for the generation
    hooked,          \* the generations whose event came from MonitorHookbot
    kill,            \* kill watcher of Start: ContainerKill has been sent
    tried,           \* history: the rule deletions the removal goroutine attempted
    delBad,          \* history: the rule deletions that failed for it
    first,           \* ActionRun: the first command line argument, <<>> for none
    imageSource,     \* ActionRun: the image source, of kind "none" | "cwd" | "pull"
    opc,             \* CwdSource.Obtain: "none" | "build" (in DockerBuildDirectory) |
                     \* "runtime" (in constructRuntime) | "done" (returned the image
                     \* built) | "done-runtime" | "err"
    dpc,             \* DockerRun: "none" | "create" | "select" | "err"
    gpc,             \* DockerRun, the attach goroutine: "none" | "attach" | "copy" |
                     \* "done" (detached is closed)
    ctr,             \* DockerRun, the container that generates the build context:
                     \* "none" | "created"
    cores,           \* runtime.NumCPU()
    sub,             \* PrepSubmodules: the worker of each submodule
    nest             \* the nested PrepSubmodules of each submodule: its workers

vars == <<disableOverlap, exited, i, lpc, dying, crashed, faults, failed, superceded, obtained,
          ready, closing, rpc, wpc, apc, cpc, drain, sendq, fpc, cur, live,
          grace, rules, removal, rem, invoked, handed, promoted, readyOrder,
          supFirst, evObtained, exposed, pol, polls, resp, awl, imageName, ref,
          ret, deleted, hooked, kill, tried, delBad, first, imageSource, opc, dpc, gpc, ctr,
          cores, sub, nest>>

latches == <<failed, superceded, obtained, ready, closing>>
flipperVars == <<sendq, fpc, cur, live, grace, handed, promoted>>
ruleVars == <<rules, removal, rem, invoked>>
loopVars == <<i, lpc>>
hist == <<readyOrder, supFirst>>
hookVars == <<evObtained, hooked>>
runRet == <<ret, deleted>>
srcVars == <<first, imageSource, opc, dpc, gpc, ctr>>
subVars == <<cores, sub, nest>>
delVars == <<tried, delBad>>
auxVars == <<kill, delVars, srcVars, subVars>>
probeVars == <<exposed, pol, polls, resp, awl>>
refVars == <<imageName, ref>>

\* The environment may produce one more event.
Budget == i + faults < MaxEvents

\* A history sequence without generation c.
Drop(s, c) == SelectSeq(s, LAMBDA x : x # c)

\* readyOrder keeps a promoted generation only while a generation that is not
\* yet handed to flipper (pend) stands before it.
RECURSIVE Keep(_, _, _)
Keep(s, pend, seen) ==
    IF s = <<>> THEN <<>>
    ELSE IF Head(s) \in pend THEN <<Head(s)>> \o Keep(Tail(s), pend, TRUE)
    ELSE IF seen THEN <<Head(s)>> \o Keep(Tail(s), pend, seen)
    ELSE Keep(Tail(s), pend, seen)

Range(s) == {s[n] : n \in 1 .. Len(s)}

\* The state after ActionRun has started loop and loop has started flipper;
\* name is the image name the image source is going to return.
InitWith(name) ==
    /\ evObtained = [c \in Gens |-> FALSE]
    /\ exposed = Nil
    /\ pol = [p \in Pollers |-> "none"]
    /\ polls = [p \in Pollers |-> 0]
    /\ resp = [p \in Pollers |-> "none"]
    /\ awl = "none"
    /\ imageName = name
    /\ ref = <<>>
    /\ ret = [c \in Gens |-> "none"]
    /\ deleted = [c \in Gens |-> FALSE]
    /\ hooked = {}
    /\ kill = [c \in Gens |-> FALSE]
    /\ tried = [c \in Gens |-> {}]
    /\ delBad = [c \in Gens |-> {}]
    /\ disableOverlap \in BOOLEAN
    /\ i = 0
    /\ lpc = "idle"
    /\ dying = FALSE
    /\ crashed = FALSE
    /\ exited = FALSE
    /\ faults = 0
    /\ failed = [c \in Gens |-> FALSE]
    /\ superceded = [c \in Gens |-> FALSE]
    /\ obtained = [c \in Gens |-> FALSE]
    /\ ready = [c \in Gens |-> FALSE]
    /\ closing = [c \in Gens |-> FALSE]
    /\ rpc = [c \in Gens |-> "none"]
    /\ wpc = [c \in Gens |-> "none"]
    /\ apc = [c \in Gens |-> "none"]
    /\ cpc = [c \in Gens |-> "none"]
    /\ drain = [c \in Gens |-> FALSE]
    /\ sendq = <<>>
    /\ fpc = "recv"
    /\ cur = Nil
    /\ live = Nil
    /\ grace = {}
    /\ rules = [c \in Gens |-> {}]
    /\ removal = [c \in Gens |-> <<>>]
    /\ rem = [c \in Gens |-> "none"]
    /\ invoked = [c \in Gens |-> <<>>]
    /\ handed = <<>>
    /\ promoted = <<>>
    /\ readyOrder = <<>>
    /\ supFirst = {}

\* No image source has been chosen.
InitSrc ==
    /\ imageSource = [kind |-> "none", repo |-> <<>>, tag |-> <<>>]
    /\ opc = "none"
    /\ dpc = "none"
    /\ gpc = "none"
    /\ ctr = "none"

\* No PrepSubmodules is running.
InitSub ==
    /\ sub = [t \in Subs |-> "none"]
    /\ nest = [t \in Subs |-> [n \in Subs |-> "none"]]

Init == InitWith(<<>>) /\ first = <<>> /\ InitSrc /\ cores = 1 /\ InitSub

----------------------------------------------------------------------------
\* The image source.

\* What the actions of this section leave alone.
notSrc == <<kill, delVars, subVars, runRet, hookVars, probeVars, refVars, disableOverlap,
            exited, loopVars, dying, latches, rpc, wpc, apc, cpc, drain, flipperVars,
            ruleVars, hist>>

\* imageTag.FindStringSubmatch(s) for imageTag = ^([^:]+):?(.*)$: nil when s
\* does not begin with a character other than ':', else the whole match, the
\* longest prefix without ':', and what follows the ':' after it (or follows
\* the prefix, at the end of s).
FindStringSubmatch(s) ==
    IF s = <<>> \/ s[1] = ":"
      THEN <<>>
      ELSE LET colons == {k \in 1 .. Len(s) : s[k] = ":"}
               k == IF colons = {} THEN Len(s) + 1
                    ELSE CHOOSE m \in colons : \A n \in colons : m <= n
           IN  <<s, SubSeq(s, 1, k - 1), SubSeq(s, k + 1, Len(s))>>

\* DockerPullSourceFromImage: it panics unless the slice has two elements, and
\* takes elements 0 and 1 of it for Repository and Tag.
DockerPullSourceFromImage(image) ==
    LET parts == FindStringSubmatch(image)
    IN  IF Len(parts) # 2
          THEN [panic |-> TRUE, repo |-> <<>>, tag |-> <<>>]
          ELSE [panic |-> FALSE, repo |-> parts[1], tag |-> parts[2]]

\* DockerPullSource.Obtain: the name it pulls and returns.
PullName(src) == src.repo \o <<":">> \o src.tag

\* ActionRun without --hookbot: no argument or "@" is the working directory,
\* anything else a repository[:tag] to pull.
ChooseSource ==
    /\ ~crashed /\ ~exited
    /\ imageSource.kind = "none"
    /\ IF first = <<>> \/ first = <<"@">>
         THEN /\ imageSource' = [kind |-> "cwd", repo |-> <<>>, tag |-> <<>>]
              /\ UNCHANGED crashed
         ELSE LET src == DockerPullSourceFromImage(first)
              IN  IF src.panic
                    THEN /\ crashed' = TRUE
                         /\ UNCHANGED imageSource
                    ELSE /\ imageSource' = [kind |-> "pull", repo |-> src.repo, tag |-> src.tag]
                         /\ UNCHANGED crashed
    /\ UNCHANGED <<notSrc, faults, first, opc, dpc, gpc, ctr>>

\* CwdSource.Obtain: s.Name(), and into DockerBuildDirectory.
ObtainBuild ==
    /\ ~crashed /\ ~exited
    /\ imageSource.kind = "cwd"
    /\ opc = "none"
    /\ opc' = "build"
    /\ UNCHANGED <<notSrc, crashed, faults, first, imageSource, dpc, gpc, ctr>>

\* DockerBuildDirectory returns.  On error Obtain returns it.  Without a
\* runtime/Dockerfile Obtain returns the image built; with one it calls
\* constructRuntime, which calls DockerRun.
BuildReturns(ok, runtime) ==
    /\ ~crashed /\ ~exited
    /\ opc = "build"
    /\ IF ~ok
         THEN /\ opc' = "err"
              /\ faults' = faults + 1
              /\ UNCHANGED dpc
         ELSE /\ opc' = IF runtime THEN "runtime" ELSE "done"
              /\ dpc' = IF runtime THEN "create" ELSE dpc
              /\ UNCHANGED faults
    /\ UNCHANGED <<notSrc, crashed, first, imageSource, gpc, ctr>>

\* DockerRun: ContainerCreate returns.  On error DockerRun, constructRuntime
\* and Obtain return it.  Otherwise DockerRun starts the attach goroutine and
\* enters its select on detached and attached.
DockerRunCreate(ok) ==
    /\ ~crashed /\ ~exited
    /\ dpc = "create"
    /\ IF ok
         THEN /\ ctr' = "created"
              /\ gpc' = "attach"
              /\ dpc' = "select"
              /\ UNCHANGED <<opc, faults>>
         ELSE /\ dpc' = "err"
              /\ opc' = "err"
              /\ faults' = faults + 1
              /\ UNCHANGED <<ctr, gpc>>
    /\ UNCHANGED <<notSrc, crashed, first, imageSource>>

\* The attach goroutine: ContainerAttach returns.  With a stream the goroutine
\* is in io.Copy, which lasts as long as the stream.  On error it closes the
\* pipe and still calls io.Copy(w, cr.Reader) with the nil Reader of the zero
\* HijackedResponse: a nil pointer dereference.
AttachReturns(ok) ==
    /\ ~crashed /\ ~exited
    /\ gpc = "attach"
    /\ IF ok
         THEN /\ gpc' = "copy"
              /\ UNCHANGED <<crashed, faults>>
         ELSE /\ crashed' = TRUE
              /\ faults' = faults + 1
              /\ UNCHANGED gpc
    /\ UNCHANGED <<notSrc, first, imageSource, opc, dpc, ctr>>

\* The attached stream ends with the container still only created: the
\* connection to the daemon is lost.  io.Copy returns and the deferred
\* close(detached) runs.  (The stream of a container ends by itself when the
\* container exits, and this one has not been started.)
StreamEnds ==
    /\ ~crashed /\ ~exited
    /\ gpc = "copy"
    /\ ctr = "created"
    /\ gpc' = "done"
    /\ faults' = faults + 1
    /\ UNCHANGED <<notSrc, crashed, first, imageSource, opc, dpc, ctr>>

\* The detached case of DockerRun's select: "Attachment failed".  The other
\* case, <-attached, is never ready: nothing sends on attached or closes it.
\* ContainerStart and all that follows it in DockerRun and constructRuntime
\* come after this select.
SelectDetached ==
    /\ ~crashed /\ ~exited
    /\ dpc = "select"
    /\ gpc = "done"
    /\ dpc' = "err"
    /\ opc' = "err"
    /\ UNCHANGED <<notSrc, crashed, faults, first, imageSource, gpc, ctr>>

----------------------------------------------------------------------------
\* Submodules.  sub[t] is the worker of the t-th submodule of the checkout:
\* "none" (not spawned) | "wait" (blocked in semaphore <- struct{}{}) | "prep"
\* (in prepSubmodule: LocalMirror, gitCheckout) | "nested" (in the
\* PrepSubmodules that recursiveCheckout calls on the submodule's checkout) |
\* "done".  nest[t][n] is the worker of the n-th submodule of submodule t, in
\* that nested call; these have no .gitmodules of their own.

\* What the actions of this section leave alone.
notSub == <<kill, delVars, srcVars, runRet, hookVars, probeVars, refVars, disableOverlap,
            exited, loopVars, dying, latches, rpc, wpc, apc, cpc, drain, flipperVars,
            ruleVars, hist, crashed>>

\* Slots taken of the semaphore of the outer call: a worker holds its slot
\* from the send until the deferred receive, at its return.
held == Cardinality({t \in Subs : sub[t] \in {"prep", "nested"}})

\* Slots taken of the semaphore that the call nested in worker t made.
nestHeld(t) == Cardinality({n \in Subs : nest[t][n] = "prep"})

\* PrepSubmodules: .gitmodules parsed, the goroutine makes the semaphore with
\* NumCPU slots and starts one worker per submodule.
PrepStart ==
    /\ \A t \in Subs : sub[t] = "none"
    /\ sub' = [t \in Subs |-> "wait"]
    /\ UNCHANGED <<notSub, faults, cores, nest>>

\* A worker's send on the semaphore goes through; it enters prepSubmodule.
Acquire(t) ==
    /\ sub[t] = "wait"
    /\ held < cores
    /\ sub' = [sub EXCEPT ![t] = "prep"]
    /\ UNCHANGED <<notSub, faults, cores, nest>>

\* LocalMirror or gitCheckout fails: prepSubmodule returns the error, the
\* worker sends it on errs and its defers give the slot back.
PrepErr(t) ==
    /\ sub[t] = "prep"
    /\ sub' = [sub EXCEPT ![t] = "done"]
    /\ faults' = faults + 1
    /\ UNCHANGED <<notSub, cores, nest>>

\* LocalMirror and gitCheckout succeed and recursiveCheckout calls
\* PrepSubmodules on the submodule's checkout, where it finds k submodules.
\* That call makes a semaphore of its own and starts its own workers.
Recurse(t, k) ==
    /\ sub[t] = "prep"
    /\ sub' = [sub EXCEPT ![t] = "nested"]
    /\ nest' = [nest EXCEPT ![t] = [n \in Subs |-> IF n <= k THEN "wait" ELSE "none"]]
    /\ UNCHANGED <<notSub, faults, cores>>

\* A worker of the nested call takes a slot of the nested call's semaphore.
NestAcquire(t, n) ==
    /\ nest[t][n] = "wait"
    /\ nestHeld(t) < cores
    /\ nest' = [nest EXCEPT ![t][n] = "prep"]
    /\ UNCHANGED <<notSub, faults, cores, sub>>

\* A worker of the nested call returns from prepSubmodule (its checkout has
\* no .gitmodules, or a step failed), sends on errs and gives its slot back.
NestFinish(t, n) ==
    /\ nest[t][n] = "prep"
    /\ nest' = [nest EXCEPT ![t][n] = "done"]
    /\ UNCHANGED <<notSub, faults, cores, sub>>

\* All workers of the nested call are done: wg.Wait returns, errs is closed,
\* MultipleErrors and the nested PrepSubmodules return, then recursiveCheckout
\* and prepSubmodule; worker t sends on errs and gives its slot back.
NestedReturn(t) ==
    /\ sub[t] = "nested"
    /\ \A n \in Subs : nest[t][n] \in {"none", "done"}
    /\ sub' = [sub EXCEPT ![t] = "done"]
    /\ UNCHANGED <<notSub, faults, cores, nest>>

----------------------------------------------------------------------------
\* The supervisor loop.

\* Spawn with a supercede that falls the Superceded of the generation just
\* constructed instead of that of its predecessor.
Spawn_supercedesSelf(c) ==
    /\ superceded' = [g \in Gens |-> IF g = c THEN TRUE ELSE superceded[g]]
    /\ rpc' = [rpc EXCEPT ![c] = "obtain"]
    /\ wpc' = [wpc EXCEPT ![c] = "select"]

\* The body of loop after the optional nil send: NewContainer, supercede(),
\* and the two goroutines (Run driver, fate watcher).
Spawn(c) ==
    /\ superceded' = [g \in Gens |-> IF g = c - 1 THEN TRUE ELSE superceded[g]]
    /\ rpc' = [rpc EXCEPT ![c] = "obtain"]
    /\ wpc' = [wpc EXCEPT ![c] = "select"]

\* LoopEventFrom with a MonitorHookbot that does not wait for the Obtained of
\* the event it sent before.
LoopEventFrom_noWait(hook) ==
    /\ ~crashed /\ ~exited
    /\ lpc = "idle"
    /\ Budget
    /\ hooked' = IF hook THEN hooked \cup {i} ELSE hooked
    /\ i' = i + 1
    /\ IF disableOverlap
         THEN /\ sendq' = Append(sendq, Nil)
              /\ lpc' = "sendnil"
              /\ UNCHANGED <<superceded, rpc, wpc>>
         ELSE /\ Spawn(i)
              /\ UNCHANGED <<sendq, lpc>>
    /\ UNCHANGED <<auxVars, runRet, evObtained, probeVars, refVars, disableOverlap, exited, faults, dying, crashed, failed, obtained, ready, closing,
                   apc, cpc, drain, fpc, cur, live, grace, handed, promoted,
                   ruleVars, hist>>

\* loop receives an event.  The first event and those of the SIGHUP handler
\* come whenever the environment sends them: hook is FALSE.  MonitorHookbot
\* sends one event per payload and then waits for its Obtained, so that it
\* sends the next only when the Obtained of every event it sent has fallen:
\* hook is TRUE.  The event passes through the buffer of events; the send and
\* the receive are taken together.
LoopEventFrom(hook) ==
    /\ ~crashed /\ ~exited
    /\ lpc = "idle"
    /\ Budget
    /\ hook => \A c \in hooked : evObtained[c]
    /\ hooked' = IF hook THEN hooked \cup {i} ELSE hooked
    /\ i' = i + 1
    /\ IF disableOverlap
         THEN /\ sendq' = Append(sendq, Nil)
              /\ lpc' = "sendnil"
              /\ UNCHANGED <<superceded, rpc, wpc>>
         ELSE /\ Spawn(i)
              /\ UNCHANGED <<sendq, lpc>>
    /\ UNCHANGED <<auxVars, runRet, evObtained, probeVars, refVars, disableOverlap, exited, faults, dying, crashed, failed, obtained, ready, closing,
                   apc, cpc, drain, fpc, cur, live, grace, handed, promoted,
                   ruleVars, hist>>

LoopEvent == LoopEventFrom(FALSE)

\* MonitorHookbot: notify <- outBound, received by loop.
HookEvent == LoopEventFrom(TRUE)

\* loop continues once flipper has taken the nil.
LoopSpawn ==
    /\ ~crashed /\ ~exited
    /\ lpc = "spawn"
    /\ lpc' = "idle"
    /\ Spawn(i - 1)
    /\ UNCHANGED <<auxVars, runRet, hookVars, probeVars, refVars, disableOverlap, exited, faults, i, dying, crashed, failed, obtained, ready, closing,
                   apc, cpc, drain, flipperVars, ruleVars, hist>>

----------------------------------------------------------------------------
\* Container.Run and the goroutines it starts.

\* Run returns: the deferred close(c.errorsW) runs first, the deferred
\* c.Closing.Fall() after it.  The error channel is closed from the first on.
errorsClosed(c) == rpc[c] \in {"closed", "done"}

\* imageSource.Obtain returns; c.Obtained.Fall(); on error c.Failed.Fall() and
\* return -2.
RunObtain(c) ==
    /\ ~crashed /\ ~exited
    /\ rpc[c] = "obtain"
    /\ obtained' = [obtained EXCEPT ![c] = TRUE]
    /\ \E ok \in BOOLEAN :
         IF ok
           THEN /\ UNCHANGED faults
                /\ rpc' = [rpc EXCEPT ![c] = "create"]
                /\ UNCHANGED <<failed, closing, ret>>
           ELSE /\ Budget
                /\ faults' = faults + 1
                /\ rpc' = [rpc EXCEPT ![c] = "closed"]
                /\ failed' = [failed EXCEPT ![c] = TRUE]
                /\ ret' = [ret EXCEPT ![c] = "-2"]
                /\ UNCHANGED closing
    /\ UNCHANGED <<auxVars, deleted, hookVars, probeVars, refVars, disableOverlap, exited, loopVars, dying, crashed, superceded, ready,
                   wpc, apc, cpc, drain, flipperVars, ruleVars, hist>>

\* imageRef.  A name is the sequence of its characters.
Seps == {":", "@"}
Latest == <<"l", "a", "t", "e", "s", "t">>

\* The positions at which imageRefRepoPattern, ^(.*/.*)[:@](.*)$, can put its
\* separator: a ':' or '@' with a '/' somewhere before it.
RepoSplits(s) ==
    {k \in 1 .. Len(s) : s[k] \in Seps /\ \E j \in 1 .. (k - 1) : s[j] = "/"}

\* The same for imageRefNamePattern, ^(.*)[:@](.*)$.
NameSplits(s) == {k \in 1 .. Len(s) : s[k] \in Seps}

\* The first group of either pattern is greedy: of the possible positions the
\* match takes the last.
Greedy(S) == CHOOSE k \in S : \A m \in S : m <= k

\* imageRef with a second group that starts at the separator.
imageRef_keepsSep(s) ==
    LET S == IF \E j \in 1 .. Len(s) : s[j] = "/" THEN RepoSplits(s) ELSE NameSplits(s)
    IN  IF S = {} THEN <<s, Latest>>
        ELSE <<SubSeq(s, 1, Greedy(S) - 1), SubSeq(s, Greedy(S), Len(s))>>

\* imageRef: the repo pattern for a name with a '/', the name pattern otherwise;
\* (imageName, "latest") when the pattern does not match.
imageRef(s) ==
    LET S == IF \E j \in 1 .. Len(s) : s[j] = "/" THEN RepoSplits(s) ELSE NameSplits(s)
    IN  IF S = {} THEN <<s, Latest>>
        ELSE <<SubSeq(s, 1, Greedy(S) - 1), SubSeq(s, Greedy(S) + 1, Len(s))>>

\* Create: imageRepo, imageTagDigest := imageRef(imageName).
CreateRef ==
    /\ ref = <<>>
    /\ ref' = imageRef(imageName)
    /\ UNCHANGED <<auxVars, runRet, hookVars, probeVars, imageName, disableOverlap, exited, faults, loopVars,
                   dying, crashed, latches, rpc, wpc, apc, cpc, drain, flipperVars,
                   ruleVars, hist>>

\* c.Create returns; on error c.Failed.Fall() and return -1.
RunCreate(c) ==
    /\ ~crashed /\ ~exited
    /\ rpc[c] = "create"
    /\ \E ok \in BOOLEAN :
         IF ok
           THEN /\ UNCHANGED faults
                /\ rpc' = [rpc EXCEPT ![c] = "start"]
                /\ UNCHANGED <<failed, closing, ret>>
           ELSE /\ Budget
                /\ faults' = faults + 1
                /\ rpc' = [rpc EXCEPT ![c] = "closed"]
                /\ failed' = [failed EXCEPT ![c] = TRUE]
                /\ ret' = [ret EXCEPT ![c] = "-1"]
                /\ UNCHANGED closing
    /\ UNCHANGED <<auxVars, deleted, hookVars, probeVars, refVars, disableOverlap, exited, loopVars, dying, crashed, superceded, obtained,
                   ready, wpc, apc, cpc, drain, flipperVars, ruleVars, hist>>

\* RunStart without the call of c.Delete() when Start fails.
RunStart_noDelete(c) ==
    /\ ~crashed /\ ~exited
    /\ rpc[c] = "start"
    /\ \E ok \in BOOLEAN :
         IF ok
           THEN /\ UNCHANGED faults
                /\ rpc' = [rpc EXCEPT ![c] = "wait"]
                /\ cpc' = [cpc EXCEPT ![c] = "run"]
                /\ apc' = [apc EXCEPT ![c] = "polling"]
                /\ UNCHANGED <<failed, closing, ret, deleted>>
           ELSE /\ Budget
                /\ faults' = faults + 1
                /\ rpc' = [rpc EXCEPT ![c] = "closed"]
                /\ UNCHANGED deleted
                /\ failed' = [failed EXCEPT ![c] = TRUE]
                /\ ret' = [ret EXCEPT ![c] = "-1"]
                /\ UNCHANGED closing
                /\ UNCHANGED <<cpc, apc>>
    /\ UNCHANGED <<auxVars, hookVars, probeVars, refVars, disableOverlap, exited, loopVars, dying, crashed, superceded, obtained,
                   ready, wpc, drain, flipperVars, ruleVars, hist>>

\* c.Start returns.  On error: c.Delete(), c.Failed.Fall(), return -1.  Otherwise Run
\* starts the CopyOutput goroutine and the AwaitListening goroutine and enters c.Wait().
RunStart(c) ==
    /\ ~crashed /\ ~exited
    /\ rpc[c] = "start"
    /\ \E ok \in BOOLEAN :
         IF ok
           THEN /\ UNCHANGED faults
                /\ rpc' = [rpc EXCEPT ![c] = "wait"]
                /\ cpc' = [cpc EXCEPT ![c] = "run"]
                /\ apc' = [apc EXCEPT ![c] = "polling"]
                /\ UNCHANGED <<failed, closing, ret, deleted>>
           ELSE /\ Budget
                /\ faults' = faults + 1
                /\ rpc' = [rpc EXCEPT ![c] = "closed"]
                /\ deleted' = [deleted EXCEPT ![c] = TRUE]
                /\ failed' = [failed EXCEPT ![c] = TRUE]
                /\ ret' = [ret EXCEPT ![c] = "-1"]
                /\ UNCHANGED closing
                /\ UNCHANGED <<cpc, apc>>
    /\ UNCHANGED <<auxVars, hookVars, probeVars, refVars, disableOverlap, exited, loopVars, dying, crashed, superceded, obtained,
                   ready, wpc, drain, flipperVars, ruleVars, hist>>

\* c.Wait returns (the container exited, or the wait failed); Run returns.
RunWait(c) ==
    /\ ~crashed /\ ~exited
    /\ rpc[c] = "wait"
    /\ rpc' = [rpc EXCEPT ![c] = "closed"]
    /\ ret' = [ret EXCEPT ![c] = "wait"]
    /\ UNCHANGED <<auxVars, deleted, hookVars, probeVars, refVars, disableOverlap, exited, faults, loopVars, dying, crashed, latches,
                   wpc, apc, cpc, drain, flipperVars, ruleVars, hist>>

\* RunClosingFall without the deferred c.Closing.Fall().
RunClosingFall_noFall(c) ==
    /\ ~crashed /\ ~exited
    /\ rpc[c] = "closed"
    /\ rpc' = [rpc EXCEPT ![c] = "done"]
    /\ UNCHANGED <<auxVars, runRet, hookVars, probeVars, refVars, disableOverlap, exited, faults, loopVars, dying, crashed, latches,
                   wpc, apc, cpc, drain, flipperVars, ruleVars, hist>>

\* The last deferred call of Run: c.Closing.Fall().  Run has returned, and the
\* driver goroutine of loop ends.
RunClosingFall(c) ==
    /\ ~crashed /\ ~exited
    /\ rpc[c] = "closed"
    /\ rpc' = [rpc EXCEPT ![c] = "done"]
    /\ closing' = [closing EXCEPT ![c] = TRUE]
    /\ UNCHANGED <<auxVars, runRet, hookVars, probeVars, refVars, disableOverlap, exited, faults, loopVars, dying, crashed, failed, superceded,
                   obtained, ready, wpc, apc, cpc, drain, flipperVars, ruleVars, hist>>

\* The kill watcher of Start: it is started when Start succeeds (with it Run
\* starts CopyOutput), and after <-c.Closing.Barrier() it sends the kill and
\* ends.  The kill changes nothing but the container, so it is taken at the
\* moment Closing falls.
killWaiting(c) == cpc[c] # "none" /\ ~closing[c]
killed(c) == cpc[c] # "none" /\ closing[c]

\* The kill watcher as a goroutine of its own: after <-c.Closing.Barrier() it
\* calls ContainerKill and ends.
KillSend(c) ==
    /\ ~crashed /\ ~exited
    /\ killed(c)
    /\ ~kill[c]
    /\ kill' = [kill EXCEPT ![c] = TRUE]
    /\ UNCHANGED <<delVars, srcVars, subVars, runRet, hookVars, probeVars, refVars, disableOverlap,
                   exited, faults, loopVars, dying, crashed, latches, rpc, wpc, apc, cpc,
                   drain, flipperVars, ruleVars, hist>>

\* AwaitListening returns nil (its select took the success case); c.Ready.Fall().
\* The select does not prefer a fallen Closing over a success that is ready too.
AwaitOk(c) ==
    /\ ~crashed /\ ~exited
    /\ apc[c] = "polling"
    /\ apc' = [apc EXCEPT ![c] = "done"]
    /\ ready' = [ready EXCEPT ![c] = TRUE]
    /\ readyOrder' = IF wpc[c] = "select" THEN Append(readyOrder, c) ELSE readyOrder
    /\ supFirst' = IF wpc[c] = "select" /\ superceded[c]
                     THEN supFirst \cup {c} ELSE supFirst
    /\ UNCHANGED <<auxVars, runRet, hookVars, probeVars, refVars, disableOverlap, exited, faults, loopVars, dying, crashed, failed, superceded,
                   obtained, closing, rpc, wpc, cpc, drain, flipperVars, ruleVars>>

\* AwaitListening returns an error (no ports, no poller left, Closing fell, or
\* the deadline passed); c.Failed.Fall().
AwaitErr(c) ==
    /\ ~crashed /\ ~exited
    /\ apc[c] = "polling"
    /\ closing[c] \/ Budget
    /\ faults' = IF closing[c] THEN faults ELSE faults + 1
    /\ apc' = [apc EXCEPT ![c] = "done"]
    /\ failed' = [failed EXCEPT ![c] = TRUE]
    /\ UNCHANGED <<auxVars, runRet, hookVars, probeVars, refVars, disableOverlap, exited, loopVars, dying, crashed, superceded, obtained,
                   ready, closing, rpc, wpc, cpc, drain, flipperVars, ruleVars, hist>>

----------------------------------------------------------------------------
\* AwaitListening in detail, for the prober of the first generation.

P == 0

\* What one call of poll can meet: no response (the connection failed or the
\* request was cancelled), http.NewRequest rejecting the URL, a malformed HTTP
\* response, or a response with a status code.
Answers == {"none", "urlerr", "malformed", "200", "404", "500"}

\* finished is closed by the deferred close when AwaitListening returns.
finished == awl \notin {"none", "select"}

\* A poller goroutine that has returned.
Returned == {"won", "lost", "gaveup", "stopped"}

\* AwaitListening returns an error; the prober logs it and falls Failed.
AwaitFail(why) ==
    /\ awl' = why
    /\ apc' = [apc EXCEPT ![P] = "done"]
    /\ failed' = [failed EXCEPT ![P] = TRUE]

\* ProbeEnter without the check of len(Ports): AwaitListening goes on to its
\* select with no poller started.
ProbeEnter_noZeroCheck ==
    /\ ~crashed /\ ~exited
    /\ apc[P] = "polling" /\ awl = "none"
    /\ \E n \in 0 .. MaxExposed :
         /\ exposed' = n
         /\ pol' = [p \in Pollers |-> IF p <= n THEN "poll" ELSE "none"]
         /\ awl' = "select"
         /\ UNCHANGED <<apc, failed>>
    /\ UNCHANGED <<auxVars, runRet, hookVars, refVars, polls, resp, disableOverlap, exited, faults, loopVars,
                   dying, crashed, superceded, obtained, ready, closing, rpc, wpc, cpc,
                   drain, flipperVars, ruleVars, hist>>

\* The prober goroutine enters AwaitListening.  With no exposed port in the
\* inspect snapshot it returns an error at once; otherwise it starts one poller
\* per exposed port and the noPollersRemain goroutine, and enters its select.
ProbeEnter ==
    /\ ~crashed /\ ~exited
    /\ apc[P] = "polling" /\ awl = "none"
    /\ \E n \in 0 .. MaxExposed :
         /\ exposed' = n
         /\ IF n = 0
              THEN /\ AwaitFail("noports")
                   /\ UNCHANGED pol
              ELSE /\ pol' = [p \in Pollers |-> IF p <= n THEN "poll" ELSE "none"]
                   /\ awl' = "select"
                   /\ UNCHANGED <<apc, failed>>
    /\ UNCHANGED <<auxVars, runRet, hookVars, refVars, polls, resp, disableOverlap, exited, faults, loopVars,
                   dying, crashed, superceded, obtained, ready, closing, rpc, wpc, cpc,
                   drain, flipperVars, ruleVars, hist>>

\* Poll with a poll that returns false on 200 without the handshake on success.
Poll_noHandshake(p, r) ==
    /\ ~crashed /\ ~exited
    /\ pol[p] = "poll"
    /\ polls[p] < MaxPolls
    /\ polls' = [polls EXCEPT ![p] = polls[p] + 1]
    /\ resp' = [resp EXCEPT ![p] = r]
    /\ pol' = [pol EXCEPT ![p] = CASE r = "none" -> "sleep"
                                    [] r = "200" -> "lost"
                                    [] OTHER -> "gaveup"]
    /\ UNCHANGED <<auxVars, runRet, hookVars, refVars, exposed, awl, disableOverlap, exited, faults, loopVars,
                   dying, crashed, latches, rpc, wpc, apc, cpc, drain, flipperVars,
                   ruleVars, hist>>

\* One call of poll by poller p, with answer r.  No response: poll returns true
\* and the poller goes to the select between finished and the timer.  200: poll
\* blocks in its select between the send on success and finished.  Everything
\* else (URL error, malformed response, the default case of the status switch):
\* poll returns false and the goroutine ends.
Poll(p, r) ==
    /\ ~crashed /\ ~exited
    /\ pol[p] = "poll"
    /\ polls[p] < MaxPolls
    /\ polls' = [polls EXCEPT ![p] = polls[p] + 1]
    /\ resp' = [resp EXCEPT ![p] = r]
    /\ pol' = [pol EXCEPT ![p] = CASE r = "none" -> "sleep"
                                    [] r = "200" -> "offer"
                                    [] OTHER -> "gaveup"]
    /\ UNCHANGED <<auxVars, runRet, hookVars, refVars, exposed, awl, disableOverlap, exited, faults, loopVars,
                   dying, crashed, latches, rpc, wpc, apc, cpc, drain, flipperVars,
                   ruleVars, hist>>

\* The timer case of the poller's select: the next poll.
Wake(p) ==
    /\ ~crashed /\ ~exited
    /\ pol[p] = "sleep"
    /\ polls[p] < MaxPolls
    /\ pol' = [pol EXCEPT ![p] = "poll"]
    /\ UNCHANGED <<auxVars, runRet, hookVars, refVars, exposed, polls, resp, awl, disableOverlap, exited,
                   faults, loopVars, dying, crashed, latches, rpc, wpc, apc, cpc, drain,
                   flipperVars, ruleVars, hist>>

\* The finished case of the poller's select: the goroutine returns.
Stop(p) ==
    /\ ~crashed /\ ~exited
    /\ pol[p] = "sleep"
    /\ finished
    /\ pol' = [pol EXCEPT ![p] = "stopped"]
    /\ UNCHANGED <<auxVars, runRet, hookVars, refVars, exposed, polls, resp, awl, disableOverlap, exited,
                   faults, loopVars, dying, crashed, latches, rpc, wpc, apc, cpc, drain,
                   flipperVars, ruleVars, hist>>

\* poll's select on success without the finished case: an unclaimed offer is
\* never given up.
OfferFinished_noCase(p) ==
    /\ FALSE
    /\ UNCHANGED vars

\* The finished case of poll's select on success: the offer is given up, poll
\* returns false and the goroutine ends.
OfferFinished(p) ==
    /\ ~crashed /\ ~exited
    /\ pol[p] = "offer"
    /\ finished
    /\ pol' = [pol EXCEPT ![p] = "lost"]
    /\ UNCHANGED <<auxVars, runRet, hookVars, refVars, exposed, polls, resp, awl, disableOverlap, exited,
                   faults, loopVars, dying, crashed, latches, rpc, wpc, apc, cpc, drain,
                   flipperVars, ruleVars, hist>>

\* The success case of AwaitListening's select: it receives the offer of poller
\* p, acknowledges it and returns nil; the poller returns; the prober falls
\* Ready.
AwaitSuccess(p) ==
    /\ ~crashed /\ ~exited
    /\ awl = "select"
    /\ pol[p] = "offer"
    /\ awl' = "ok"
    /\ pol' = [pol EXCEPT ![p] = "won"]
    /\ apc' = [apc EXCEPT ![P] = "done"]
    /\ ready' = [ready EXCEPT ![P] = TRUE]
    /\ readyOrder' = IF wpc[P] = "select" THEN Append(readyOrder, P) ELSE readyOrder
    /\ supFirst' = IF wpc[P] = "select" /\ superceded[P]
                     THEN supFirst \cup {P} ELSE supFirst
    /\ UNCHANGED <<auxVars, runRet, hookVars, refVars, exposed, polls, resp, disableOverlap, exited, faults,
                   loopVars, dying, crashed, failed, superceded, obtained, closing, rpc,
                   wpc, cpc, drain, flipperVars, ruleVars>>

\* AwaitNoPollers firing as soon as one poller has returned.
AwaitNoPollers_any ==
    /\ ~crashed /\ ~exited
    /\ awl = "select"
    /\ \E p \in Pollers : pol[p] \in Returned
    /\ AwaitFail("nopollers")
    /\ UNCHANGED <<auxVars, runRet, hookVars, refVars, exposed, pol, polls, resp, disableOverlap, exited,
                   faults, loopVars, dying, crashed, superceded, obtained, ready, closing,
                   rpc, wpc, cpc, drain, flipperVars, ruleVars, hist>>

\* The noPollersRemain case: pollers.Wait() has returned, that is every poller
\* goroutine has returned.
AwaitNoPollers ==
    /\ ~crashed /\ ~exited
    /\ awl = "select"
    /\ \A p \in Pollers : p <= exposed => pol[p] \in Returned
    /\ AwaitFail("nopollers")
    /\ UNCHANGED <<auxVars, runRet, hookVars, refVars, exposed, pol, polls, resp, disableOverlap, exited,
                   faults, loopVars, dying, crashed, superceded, obtained, ready, closing,
                   rpc, wpc, cpc, drain, flipperVars, ruleVars, hist>>

\* The c.Closing.Barrier() case.
AwaitClosing ==
    /\ ~crashed /\ ~exited
    /\ awl = "select"
    /\ closing[P]
    /\ AwaitFail("closing")
    /\ UNCHANGED <<auxVars, runRet, hookVars, refVars, exposed, pol, polls, resp, disableOverlap, exited,
                   faults, loopVars, dying, crashed, superceded, obtained, ready, closing,
                   rpc, wpc, cpc, drain, flipperVars, ruleVars, hist>>

\* The time.After(DefaultTimeout) case.
AwaitTimeout ==
    /\ ~crashed /\ ~exited
    /\ awl = "select"
    /\ AwaitFail("timeout")
    /\ UNCHANGED <<auxVars, runRet, hookVars, refVars, exposed, pol, polls, resp, disableOverlap, exited,
                   faults, loopVars, dying, crashed, superceded, obtained, ready, closing,
                   rpc, wpc, cpc, drain, flipperVars, ruleVars, hist>>

\* CopyOutput returns nil and the goroutine ends: the attached stream ends when
\* the container has exited, which is also what ends c.Wait.  The return changes
\* nothing another goroutine reads, so it is taken once c.Wait has returned.
CopyEnd(c) ==
    /\ ~crashed /\ ~exited
    /\ cpc[c] = "run"
    /\ rpc[c] = "done"
    /\ cpc' = [cpc EXCEPT ![c] = "done"]
    /\ UNCHANGED <<auxVars, runRet, hookVars, probeVars, refVars, disableOverlap, exited, faults, loopVars, dying, crashed, latches, rpc, wpc, apc,
                   drain, flipperVars, ruleVars, hist>>

\* CopyOutput returns an error and c.err sends it: the drain goroutine receives.
CopyErrSend(c) ==
    /\ ~crashed /\ ~exited
    /\ cpc[c] = "run"
    /\ Budget
    /\ faults' = faults + 1
    /\ ~errorsClosed(c)
    /\ ~drain[c]
    /\ drain' = [drain EXCEPT ![c] = TRUE]
    /\ cpc' = [cpc EXCEPT ![c] = "sent"]
    /\ UNCHANGED <<auxVars, runRet, hookVars, probeVars, refVars, disableOverlap, exited, loopVars, dying, crashed, latches, rpc, wpc, apc,
                   flipperVars, ruleVars, hist>>

\* CopyOutput returns an error after Run has closed c.errorsW: the send panics.
CopyErrPanic(c) ==
    /\ ~crashed /\ ~exited
    /\ cpc[c] = "run"
    /\ Budget
    /\ faults' = faults + 1
    /\ errorsClosed(c)
    /\ crashed' = TRUE
    /\ cpc' = [cpc EXCEPT ![c] = "done"]
    /\ UNCHANGED <<auxVars, runRet, hookVars, probeVars, refVars, disableOverlap, exited, loopVars, dying, latches, rpc, wpc, apc, drain,
                   flipperVars, ruleVars, hist>>

\* c.err after its send: c.Closing.Fall().
CopyErrClose(c) ==
    /\ ~crashed /\ ~exited
    /\ cpc[c] = "sent"
    /\ cpc' = [cpc EXCEPT ![c] = "done"]
    /\ closing' = [closing EXCEPT ![c] = TRUE]
    /\ UNCHANGED <<auxVars, runRet, hookVars, probeVars, refVars, disableOverlap, exited, faults, loopVars, dying, crashed, failed, superceded,
                   obtained, ready, rpc, wpc, apc, drain, flipperVars, ruleVars, hist>>

\* The drain goroutine of Run logs the error it received; c.Failed.Fall().
Drain(c) ==
    /\ ~crashed /\ ~exited
    /\ drain[c]
    /\ drain' = [drain EXCEPT ![c] = FALSE]
    /\ failed' = [failed EXCEPT ![c] = TRUE]
    /\ UNCHANGED <<auxVars, runRet, hookVars, probeVars, refVars, disableOverlap, exited, faults, loopVars, dying, crashed, superceded, obtained,
                   ready, closing, rpc, wpc, apc, cpc, flipperVars, ruleVars, hist>>

\* NewContainer: c.Failed.Forward(&c.Closing).  The relay runs on its own.
ForwardFailed(c) ==
    /\ ~crashed /\ ~exited
    /\ wpc[c] # "none"
    /\ failed[c] /\ ~closing[c]
    /\ closing' = [closing EXCEPT ![c] = TRUE]
    /\ UNCHANGED <<auxVars, runRet, hookVars, probeVars, refVars, disableOverlap, exited, faults, loopVars, dying, crashed, failed, superceded,
                   obtained, ready, rpc, wpc, apc, cpc, drain, flipperVars, ruleVars,
                   hist>>

\* loop: dying.Forward(&c.Closing).
ForwardDying(c) ==
    /\ ~crashed /\ ~exited
    /\ wpc[c] # "none"
    /\ dying /\ ~closing[c]
    /\ closing' = [closing EXCEPT ![c] = TRUE]
    /\ UNCHANGED <<auxVars, runRet, hookVars, probeVars, refVars, disableOverlap, exited, faults, loopVars, dying, crashed, failed, superceded,
                   obtained, ready, rpc, wpc, apc, cpc, drain, flipperVars, ruleVars,
                   hist>>

\* loop: c.Obtained.Forward(&event.Obtained), the relay from the generation's
\* Obtained to the Obtained of the event it was created for.  Only
\* MonitorHookbot reads that latch.
ForwardObtained(c) ==
    /\ ~crashed /\ ~exited
    /\ wpc[c] # "none"
    /\ obtained[c] /\ ~evObtained[c]
    /\ evObtained' = [evObtained EXCEPT ![c] = TRUE]
    /\ hooked' = hooked
    /\ UNCHANGED <<auxVars, runRet, probeVars, refVars, disableOverlap, exited, faults, loopVars, dying,
                   crashed, latches, rpc, wpc, apc, cpc, drain, flipperVars, ruleVars,
                   hist>>

\* ActionRun: SIGINT, SIGTERM or the end of stdin falls dying.
Shutdown ==
    /\ ~crashed /\ ~exited
    /\ ~dying
    /\ Budget
    /\ dying' = TRUE
    /\ faults' = faults + 1
    /\ UNCHANGED <<auxVars, runRet, hookVars, probeVars, refVars, disableOverlap, exited, loopVars, crashed, latches, rpc, wpc, apc, cpc,
                   drain, flipperVars, ruleVars, hist>>

----------------------------------------------------------------------------
\* The fate watcher of loop: a select over Failed, Superceded, Closing and Ready.

WatchFailed(c) ==
    /\ ~crashed /\ ~exited
    /\ wpc[c] = "select"
    /\ failed[c]
    /\ wpc' = [wpc EXCEPT ![c] = "done"]
    /\ readyOrder' = Keep(Drop(readyOrder, c), {g \in Gens : g # c /\ wpc[g] \in {"select", "send"}}, FALSE)
    /\ supFirst' = supFirst \ {c}
    /\ closing' = [closing EXCEPT ![c] = TRUE]
    /\ UNCHANGED <<auxVars, runRet, hookVars, probeVars, refVars, disableOverlap, exited, faults, loopVars, dying, crashed, failed, superceded,
                   obtained, ready, rpc, apc, cpc, drain, flipperVars, ruleVars>>

\* WatchSuperceded by a watcher that goes on watching Superceded after it has
\* seen Ready.
WatchSuperceded_late(c) ==
    /\ ~crashed /\ ~exited
    /\ wpc[c] # "none"
    /\ superceded[c] /\ ~closing[c]
    /\ wpc' = [wpc EXCEPT ![c] = IF wpc[c] = "select" THEN "done" ELSE wpc[c]]
    /\ readyOrder' = Keep(Drop(readyOrder, c), {g \in Gens : g # c /\ wpc[g] \in {"select", "send"}}, FALSE)
    /\ supFirst' = supFirst \ {c}
    /\ closing' = [closing EXCEPT ![c] = TRUE]
    /\ UNCHANGED <<auxVars, runRet, hookVars, probeVars, refVars, disableOverlap, exited, faults, loopVars, dying, crashed, failed, superceded,
                   obtained, ready, rpc, apc, cpc, drain, flipperVars, ruleVars>>

WatchSuperceded(c) ==
    /\ ~crashed /\ ~exited
    /\ wpc[c] = "select"
    /\ superceded[c]
    /\ wpc' = [wpc EXCEPT ![c] = "done"]
    /\ readyOrder' = Keep(Drop(readyOrder, c), {g \in Gens : g # c /\ wpc[g] \in {"select", "send"}}, FALSE)
    /\ supFirst' = supFirst \ {c}
    /\ closing' = [closing EXCEPT ![c] = TRUE]
    /\ UNCHANGED <<auxVars, runRet, hookVars, probeVars, refVars, disableOverlap, exited, faults, loopVars, dying, crashed, failed, superceded,
                   obtained, ready, rpc, apc, cpc, drain, flipperVars, ruleVars>>

WatchClosing(c) ==
    /\ ~crashed /\ ~exited
    /\ wpc[c] = "select"
    /\ closing[c]
    /\ wpc' = [wpc EXCEPT ![c] = "done"]
    /\ readyOrder' = Keep(Drop(readyOrder, c), {g \in Gens : g # c /\ wpc[g] \in {"select", "send"}}, FALSE)
    /\ supFirst' = supFirst \ {c}
    /\ UNCHANGED <<auxVars, runRet, hookVars, probeVars, refVars, disableOverlap, exited, faults, loopVars, dying, crashed, latches, rpc, apc, cpc,
                   drain, flipperVars, ruleVars>>

\* WatchReady with the return of the Closing case missing: the watcher falls
\* through to the send.
WatchReady_fallThrough(c) ==
    /\ ~crashed /\ ~exited
    /\ wpc[c] = "select"
    /\ ready[c] \/ closing[c]
    /\ wpc' = [wpc EXCEPT ![c] = "send"]
    /\ sendq' = Append(sendq, c)
    /\ UNCHANGED <<auxVars, runRet, hookVars, probeVars, refVars, disableOverlap, exited, faults, loopVars, dying, crashed, latches, rpc, apc, cpc,
                   drain, fpc, cur, live, grace, handed, promoted, ruleVars, hist>>

\* The Ready case: the watcher goes on to flips <- c and blocks there.
WatchReady(c) ==
    /\ ~crashed /\ ~exited
    /\ wpc[c] = "select"
    /\ ready[c]
    /\ wpc' = [wpc EXCEPT ![c] = "send"]
    /\ sendq' = Append(sendq, c)
    /\ UNCHANGED <<auxVars, runRet, hookVars, probeVars, refVars, disableOverlap, exited, faults, loopVars, dying, crashed, latches, rpc, apc, cpc,
                   drain, fpc, cur, live, grace, handed, promoted, ruleVars, hist>>

----------------------------------------------------------------------------
\* The iptables package and flip.

\* ConfigureRedirect for one slot; bad is the set of rules whose insertion fails.
\* The PREROUTING rule is inserted first, then the OUTPUT rule; an error returns
\* (nil, err) at once, with whatever was inserted left in place.
ConfigureRedirect(s, bad) ==
    IF <<s, "PREROUTING">> \in bad
      THEN [err |-> TRUE, inserted |-> {}]
      ELSE IF <<s, "OUTPUT">> \in bad
             THEN [err |-> TRUE, inserted |-> {<<s, "PREROUTING">>}]
             ELSE [err |-> FALSE,
                   inserted |-> {<<s, "PREROUTING">>, <<s, "OUTPUT">>}]

\* The rules an inverse returned by ConfigureRedirect deletes.
remove(s) == {<<s, "PREROUTING">>, <<s, "OUTPUT">>}

\* options.portBindings in the order flip ranges over it.
SlotSeq == [n \in 1 .. (NumPorts * BindingsPerPort) |->
              <<((n - 1) \div BindingsPerPort) + 1, ((n - 1) % BindingsPerPort) + 1>>]

\* The loops of flip from slot n on: mapped is the set of internal ports for
\* which container.MappedPort answers ok.
RECURSIVE flipFrom(_, _, _, _, _)
flipFrom(n, mapped, bad, inserted, collected) ==
    IF n > Len(SlotSeq)
      THEN [err |-> FALSE, inserted |-> inserted, removal |-> collected]
      ELSE IF SlotSeq[n][1] \notin mapped
             THEN [err |-> TRUE, inserted |-> inserted, removal |-> collected]
             ELSE LET cr == ConfigureRedirect(SlotSeq[n], bad)
                  IN  IF cr.err
                        THEN [err |-> TRUE, inserted |-> inserted \cup cr.inserted,
                              removal |-> collected]
                        ELSE flipFrom(n + 1, mapped, bad, inserted \cup cr.inserted,
                                      Append(collected, SlotSeq[n]))

flip(mapped, bad) == flipFrom(1, mapped, bad, {}, <<>>)

\* What the environment can make of one flip: the ports the container maps, and
\* at most one failing insertion (the first failure ends the flip).
FlipInputs == (SUBSET Ports) \X ({{}} \cup {{r} : r \in Rule})

----------------------------------------------------------------------------
\* The flipper goroutine.

\* flipper receives nil: live.Closing.Fall() if there is a live container; live = nil.
FlipperNil ==
    /\ ~crashed /\ ~exited
    /\ fpc = "recv"
    /\ sendq # <<>> /\ Head(sendq) = Nil
    /\ sendq' = Tail(sendq)
    /\ lpc' = "spawn"
    /\ closing' = [c \in Gens |-> IF c = live THEN TRUE ELSE closing[c]]
    /\ live' = Nil
    /\ UNCHANGED <<auxVars, runRet, hookVars, probeVars, refVars, disableOverlap, exited, faults, i, dying, crashed, failed, superceded, obtained,
                   ready, rpc, wpc, apc, cpc, drain, fpc, cur, grace, handed, promoted,
                   ruleVars, hist>>

\* flipper receives c and flip succeeds: the removal goroutine is started, a grace
\* goroutine is started for the previous live container, live = c.
FlipOk(c) ==
    /\ ~crashed /\ ~exited
    /\ fpc = "recv"
    /\ sendq # <<>> /\ Head(sendq) = c
    /\ sendq' = Tail(sendq)
    /\ wpc' = [wpc EXCEPT ![c] = "done"]
    /\ handed' = Append(handed, c)
    /\ readyOrder' = Keep(readyOrder, {g \in Gens : g # c /\ wpc[g] \in {"select", "send"}}, FALSE)
    /\ supFirst' = supFirst \ {c}
    /\ \E in \in FlipInputs :
         /\ in[1] = Ports /\ in[2] = {}
         /\ LET out == flip(in[1], in[2])
            IN  /\ ~out.err
                /\ rules' = [rules EXCEPT ![c] = out.inserted]
                /\ removal' = [removal EXCEPT ![c] = out.removal]
    /\ rem' = [rem EXCEPT ![c] = "wait"]
    /\ grace' = IF live # Nil THEN grace \cup {live} ELSE grace
    /\ live' = c
    /\ promoted' = Append(promoted, c)
    /\ UNCHANGED <<auxVars, runRet, hookVars, probeVars, refVars, disableOverlap, exited, faults, loopVars, dying, crashed, latches, rpc, apc, cpc,
                   drain, fpc, cur, invoked>>

\* FlipFail with the grace goroutine started before the error of flip is looked at.
FlipFail_closesLive(c) ==
    /\ ~crashed /\ ~exited
    /\ fpc = "recv"
    /\ sendq # <<>> /\ Head(sendq) = c
    /\ sendq' = Tail(sendq)
    /\ wpc' = [wpc EXCEPT ![c] = "done"]
    /\ handed' = Append(handed, c)
    /\ readyOrder' = Keep(Drop(readyOrder, c), {g \in Gens : wpc[g] \in {"select", "send"}}, FALSE)
    /\ supFirst' = supFirst \ {c}
    /\ \E in \in FlipInputs :
         LET out == flip(in[1], in[2])
         IN  /\ out.err
             /\ rules' = [rules EXCEPT ![c] = out.inserted]
             /\ removal' = [removal EXCEPT ![c] = out.removal]
    /\ Budget
    /\ faults' = faults + 1
    /\ fpc' = "err"
    /\ cur' = c
    /\ grace' = IF live # Nil THEN grace \cup {live} ELSE grace
    /\ UNCHANGED <<auxVars, runRet, hookVars, probeVars, refVars, disableOverlap, exited, loopVars, dying, crashed, latches, rpc, apc, cpc,
                   drain, live, promoted, rem, invoked>>

\* flipper receives c and flip fails: flip is now inside container.err(err).
FlipFail(c) ==
    /\ ~crashed /\ ~exited
    /\ fpc = "recv"
    /\ sendq # <<>> /\ Head(sendq) = c
    /\ sendq' = Tail(sendq)
    /\ wpc' = [wpc EXCEPT ![c] = "done"]
    /\ handed' = Append(handed, c)
    /\ readyOrder' = Keep(Drop(readyOrder, c), {g \in Gens : wpc[g] \in {"select", "send"}}, FALSE)
    /\ supFirst' = supFirst \ {c}
    /\ \E in \in FlipInputs :
         LET out == flip(in[1], in[2])
         IN  /\ out.err
             /\ rules' = [rules EXCEPT ![c] = out.inserted]
             /\ removal' = [removal EXCEPT ![c] = out.removal]
    /\ Budget
    /\ faults' = faults + 1
    /\ fpc' = "err"
    /\ cur' = c
    /\ UNCHANGED <<auxVars, runRet, hookVars, probeVars, refVars, disableOverlap, exited, loopVars, dying, crashed, latches, rpc, apc, cpc,
                   drain, live, grace, promoted, rem, invoked>>

\* container.err of the failed flip: the drain goroutine receives the error,
\* c.Closing.Fall(); flip returns and starts the removal goroutine; flipper does
\* container.Failed.Fall() and goes back to its range.
FlipErrSend(c) ==
    /\ ~crashed /\ ~exited
    /\ fpc = "err" /\ cur = c
    /\ ~errorsClosed(c)
    /\ ~drain[c]
    /\ drain' = [drain EXCEPT ![c] = TRUE]
    /\ closing' = [closing EXCEPT ![c] = TRUE]
    /\ failed' = [failed EXCEPT ![c] = TRUE]
    /\ rem' = [rem EXCEPT ![c] = "wait"]
    /\ fpc' = "recv"
    /\ cur' = Nil
    /\ UNCHANGED <<auxVars, runRet, hookVars, probeVars, refVars, disableOverlap, exited, faults, loopVars, dying, crashed, superceded, obtained,
                   ready, rpc, wpc, apc, cpc, sendq, live, grace, handed, promoted,
                   rules, removal, invoked, hist>>

\* container.err of the failed flip after Run has closed c.errorsW: the send panics.
FlipErrPanic(c) ==
    /\ ~crashed /\ ~exited
    /\ fpc = "err" /\ cur = c
    /\ errorsClosed(c)
    /\ crashed' = TRUE
    /\ UNCHANGED <<auxVars, runRet, hookVars, probeVars, refVars, disableOverlap, exited, faults, loopVars, dying, latches, rpc, wpc, apc, cpc,
                   drain, flipperVars, ruleVars, hist>>

\* GraceFall with the Closing of the generation that is live now fallen.
GraceFall_fallsLive(c) ==
    /\ ~crashed /\ ~exited
    /\ c \in grace
    /\ grace' = grace \ {c}
    /\ closing' = [g \in Gens |-> IF g = live THEN TRUE ELSE closing[g]]
    /\ UNCHANGED <<auxVars, runRet, hookVars, probeVars, refVars, disableOverlap, exited, faults, loopVars, dying, crashed, failed, superceded,
                   obtained, ready, rpc, wpc, apc, cpc, drain, sendq, fpc, cur, live,
                   handed, promoted, ruleVars, hist>>

\* GraceFall without live.Closing.Fall().
GraceFall_noFall(c) ==
    /\ ~crashed /\ ~exited
    /\ c \in grace
    /\ grace' = grace \ {c}
    /\ UNCHANGED <<auxVars, runRet, hookVars, probeVars, refVars, disableOverlap, exited, faults, loopVars, dying, crashed, latches,
                   rpc, wpc, apc, cpc, drain, sendq, fpc, cur, live,
                   handed, promoted, ruleVars, hist>>

\* A grace goroutine of flipper wakes from its sleep: live.Closing.Fall().
GraceFall(c) ==
    /\ ~crashed /\ ~exited
    /\ c \in grace
    /\ grace' = grace \ {c}
    /\ closing' = [closing EXCEPT ![c] = TRUE]
    /\ UNCHANGED <<auxVars, runRet, hookVars, probeVars, refVars, disableOverlap, exited, faults, loopVars, dying, crashed, failed, superceded,
                   obtained, ready, rpc, wpc, apc, cpc, drain, sendq, fpc, cur, live,
                   handed, promoted, ruleVars, hist>>

\* The rules the inverses of a removal list delete.
RECURSIVE removed(_)
removed(list) == IF list = <<>> THEN {} ELSE remove(Head(list)) \cup removed(Tail(list))

\* Removal without the wait on container.Closing.
Removal_noWait(c) ==
    /\ ~crashed /\ ~exited
    /\ rem[c] = "wait"
    /\ rem' = [rem EXCEPT ![c] = "done"]
    /\ invoked' = [invoked EXCEPT ![c] = invoked[c] \o removal[c]]
    /\ rules' = [rules EXCEPT ![c] = rules[c] \ removed(removal[c])]
    /\ UNCHANGED <<auxVars, runRet, hookVars, probeVars, refVars, disableOverlap, exited, faults, loopVars, dying, crashed, latches, rpc, wpc, apc,
                   cpc, drain, flipperVars, removal, hist>>

\* One inverse returned by ConfigureRedirect, for slot s, when the deletions in
\* bad fail: it calls undoPreroute and undoOutput both, and returns the first
\* error.
removeInverse(s, bad) ==
    [tried |-> remove(s), gone |-> remove(s) \ bad, err |-> remove(s) \cap bad # {}]

\* removalLoop leaving its loop at the first inverse that returns an error.
RECURSIVE removalLoop_stops(_, _)
removalLoop_stops(list, bad) ==
    IF list = <<>>
      THEN [invoked |-> <<>>, tried |-> {}, gone |-> {}]
      ELSE LET r == removeInverse(Head(list), bad)
               rest == IF r.err THEN removalLoop_stops(<<>>, bad)
                                ELSE removalLoop_stops(Tail(list), bad)
           IN  [invoked |-> <<Head(list)>> \o rest.invoked,
                tried |-> r.tried \cup rest.tried,
                gone |-> r.gone \cup rest.gone]

\* The loop of the removal goroutine over the collected inverses: an error is
\* logged and the loop goes on.
RECURSIVE removalLoop(_, _)
removalLoop(list, bad) ==
    IF list = <<>>
      THEN [invoked |-> <<>>, tried |-> {}, gone |-> {}]
      ELSE LET r == removeInverse(Head(list), bad)
               rest == removalLoop(Tail(list), bad)
           IN  [invoked |-> <<Head(list)>> \o rest.invoked,
                tried |-> r.tried \cup rest.tried,
                gone |-> r.gone \cup rest.gone]

\* RemovalWith with the loop that stops at the first error.
RemovalWith_stops(c, bad) ==
    /\ ~crashed /\ ~exited
    /\ rem[c] = "wait"
    /\ closing[c]
    /\ rem' = [rem EXCEPT ![c] = "done"]
    /\ LET out == removalLoop_stops(removal[c], bad)
       IN  /\ invoked' = [invoked EXCEPT ![c] = invoked[c] \o out.invoked]
           /\ rules' = [rules EXCEPT ![c] = rules[c] \ out.gone]
           /\ tried' = [tried EXCEPT ![c] = out.tried]
    /\ delBad' = [delBad EXCEPT ![c] = bad]
    /\ UNCHANGED <<kill, srcVars, subVars, runRet, hookVars, probeVars, refVars, disableOverlap, exited, faults, loopVars, dying, crashed, latches, rpc, wpc, apc,
                   cpc, drain, flipperVars, removal, hist>>

\* The removal goroutine of flip: after <-container.Closing.Barrier() it calls
\* every collected inverse, in order; bad are the rule deletions that fail.
RemovalWith(c, bad) ==
    /\ ~crashed /\ ~exited
    /\ rem[c] = "wait"
    /\ closing[c]
    /\ rem' = [rem EXCEPT ![c] = "done"]
    /\ LET out == removalLoop(removal[c], bad)
       IN  /\ invoked' = [invoked EXCEPT ![c] = invoked[c] \o out.invoked]
           /\ rules' = [rules EXCEPT ![c] = rules[c] \ out.gone]
           /\ tried' = [tried EXCEPT ![c] = out.tried]
    /\ delBad' = [delBad EXCEPT ![c] = bad]
    /\ UNCHANGED <<kill, srcVars, subVars, runRet, hookVars, probeVars, refVars, disableOverlap, exited, faults, loopVars, dying, crashed, latches, rpc, wpc, apc,
                   cpc, drain, flipperVars, removal, hist>>

\* The removal goroutine when every deletion succeeds.
Removal(c) == RemovalWith(c, {})

----------------------------------------------------------------------------
\* ActionRun and the WaitGroup.

B(p) == IF p THEN 1 ELSE 0

\* The goroutines of generation c that have done wg.Add and not yet wg.Done:
\* the Run driver and the fate watcher of loop, the kill watcher of Start, the
\* CopyOutput goroutine of Run, the pollers of AwaitListening (they end when
\* AwaitListening returns) and the removal goroutine of flip.
wgOf(c) ==
    B(rpc[c] \notin {"none", "done"}) + B(wpc[c] \in {"select", "send"})
    + B(killWaiting(c)) + B(cpc[c] \in {"run", "sent"}) + B(apc[c] = "polling")
    + B(rem[c] = "wait")

RECURSIVE wgSum(_)
wgSum(c) == IF c < 0 THEN 0 ELSE wgOf(c) + wgSum(c - 1)

\* The counter of the WaitGroup.
wg == wgSum(MaxEvents - 1)

\* ActionRun is past <-dying.Barrier() and its deferred wg.Wait() returns: the
\* process exits with status 0.
Exit ==
    /\ ~crashed /\ ~exited
    /\ dying
    /\ wg = 0
    /\ exited' = TRUE
    /\ UNCHANGED <<auxVars, runRet, hookVars, probeVars, refVars, disableOverlap, faults, loopVars, dying, crashed, latches, rpc,
                   wpc, apc, cpc, drain, flipperVars, ruleVars, hist>>

Next ==
    \/ LoopEvent
    \/ LoopSpawn
    \/ Shutdown
    \/ Exit
    \/ FlipperNil
    \/ \E c \in Gens :
         \/ FlipOk(c) \/ FlipFail(c) \/ FlipErrSend(c) \/ FlipErrPanic(c)
         \/ GraceFall(c) \/ Removal(c)
    \/ \E c \in Gens :
         \/ RunObtain(c) \/ RunCreate(c) \/ RunStart(c) \/ RunWait(c)
         \/ RunClosingFall(c)
         \/ AwaitOk(c) \/ AwaitErr(c)
         \/ CopyEnd(c) \/ CopyErrSend(c) \/ CopyErrPanic(c) \/ CopyErrClose(c)
         \/ Drain(c) \/ ForwardFailed(c) \/ ForwardDying(c)
         \/ WatchFailed(c) \/ WatchSuperceded(c) \/ WatchClosing(c) \/ WatchReady(c)

Spec == Init /\ [][Next]_vars

\* The steps the program takes by itself once they are possible: every runnable
\* goroutine is scheduled, every call to the image source and to the container
\* runtime returns, a sleep ends, and a killed container exits.  A trigger, the
\* shutdown signal, a log stream error and the exit of a container nobody
\* killed are up to the environment.
Sys ==
    \/ LoopSpawn
    \/ FlipperNil
    \/ Exit
    \/ \E c \in Gens :
         \/ FlipOk(c) \/ FlipFail(c) \/ FlipErrSend(c) \/ FlipErrPanic(c)
         \/ GraceFall(c) \/ Removal(c)
         \/ RunObtain(c) \/ RunCreate(c) \/ RunStart(c)
         \/ (killed(c) /\ RunWait(c)) \/ RunClosingFall(c)
         \/ AwaitOk(c) \/ AwaitErr(c) \/ CopyEnd(c) \/ CopyErrClose(c)
         \/ Drain(c) \/ ForwardFailed(c) \/ ForwardDying(c)
         \/ WatchFailed(c) \/ WatchSuperceded(c) \/ WatchClosing(c) \/ WatchReady(c)

\* No step changes a variable back, so a behaviour makes finitely many steps,
\* and weak fairness of Sys as a whole is weak fairness of each of its steps.
FairSpec == Spec /\ WF_vars(Sys)

\* The program started without --disable-overlap: loop never sends the nil, so
\* it never waits for flipper, and flipper never receives one.
InitOverlap == Init /\ ~disableOverlap

NextOverlap ==
    \/ LoopEvent
    \/ Shutdown
    \/ Exit
    \/ \E c \in Gens :
         \/ FlipOk(c) \/ FlipFail(c) \/ FlipErrSend(c) \/ FlipErrPanic(c)
         \/ GraceFall(c) \/ Removal(c)
    \/ \E c \in Gens :
         \/ RunObtain(c) \/ RunCreate(c) \/ RunStart(c) \/ RunWait(c)
         \/ RunClosingFall(c)
         \/ AwaitOk(c) \/ AwaitErr(c)
         \/ CopyEnd(c) \/ CopyErrSend(c) \/ CopyErrPanic(c) \/ CopyErrClose(c)
         \/ Drain(c) \/ ForwardFailed(c) \/ ForwardDying(c)
         \/ WatchFailed(c) \/ WatchSuperceded(c) \/ WatchClosing(c) \/ WatchReady(c)

OverlapFairSpec == InitOverlap /\ [][NextOverlap]_vars /\ WF_vars(Sys)

\* The supervisor, the Run drivers with their log streams, and the relays, with
\* triggers that come from MonitorHookbot next to the others: what takes part in the release of a
\* trigger source.  The probers, the fate watchers and flipper have not run.
NextHook ==
    \/ LoopEvent
    \/ HookEvent
    \/ Shutdown
    \/ \E c \in Gens :
         \/ RunObtain(c) \/ RunCreate(c) \/ RunStart(c) \/ RunWait(c)
         \/ RunClosingFall(c)
         \/ CopyEnd(c) \/ CopyErrSend(c) \/ CopyErrPanic(c) \/ CopyErrClose(c)
         \/ Drain(c) \/ ForwardFailed(c) \/ ForwardDying(c) \/ ForwardObtained(c)

SysHook ==
    \E c \in Gens :
        \/ RunObtain(c) \/ RunCreate(c) \/ RunStart(c)
        \/ (killed(c) /\ RunWait(c)) \/ RunClosingFall(c)
        \/ CopyEnd(c) \/ CopyErrClose(c)
        \/ Drain(c) \/ ForwardFailed(c) \/ ForwardDying(c) \/ ForwardObtained(c)

HookFairSpec == InitOverlap /\ [][NextHook]_vars /\ WF_vars(SysHook)

\* The supervisor, the Run drivers with their log streams, the relays to
\* Closing, the fate watchers of generations that do not get ready, and the
\* kill watchers scheduled like any other goroutine: a container exits on its
\* own or once its kill has been sent.
NextKill ==
    \/ LoopEvent
    \/ Shutdown
    \/ \E c \in Gens :
         \/ RunObtain(c) \/ RunCreate(c) \/ RunStart(c) \/ RunWait(c)
         \/ RunClosingFall(c)
         \/ CopyEnd(c) \/ CopyErrSend(c) \/ CopyErrPanic(c) \/ CopyErrClose(c)
         \/ Drain(c) \/ ForwardFailed(c) \/ ForwardDying(c)
         \/ WatchFailed(c) \/ WatchSuperceded(c) \/ WatchClosing(c)
         \/ KillSend(c)

SysKill ==
    \E c \in Gens :
        \/ RunObtain(c) \/ RunCreate(c) \/ RunStart(c)
        \/ (kill[c] /\ RunWait(c)) \/ RunClosingFall(c)
        \/ CopyEnd(c) \/ CopyErrClose(c)
        \/ Drain(c) \/ ForwardFailed(c) \/ ForwardDying(c)
        \/ WatchFailed(c) \/ WatchSuperceded(c) \/ WatchClosing(c)
        \/ KillSend(c)

KillFairSpec == InitOverlap /\ [][NextKill]_vars /\ WF_vars(SysKill)

\* The first generation from its trigger to the end of its probe: the Run
\* driver with its log stream, the relays, the fate watcher up to its send on
\* flips, and AwaitListening with its pollers.
NextProbe ==
    \/ (i = 0 /\ LoopEvent)
    \/ Shutdown
    \/ RunObtain(P) \/ RunCreate(P) \/ RunStart(P) \/ RunWait(P) \/ RunClosingFall(P)
    \/ CopyEnd(P) \/ CopyErrSend(P) \/ CopyErrPanic(P) \/ CopyErrClose(P) \/ Drain(P)
    \/ ForwardFailed(P) \/ ForwardDying(P)
    \/ WatchFailed(P) \/ WatchClosing(P) \/ WatchReady(P)
    \/ ProbeEnter
    \/ \E p \in Pollers :
         \/ \E r \in Answers : Poll(p, r)
         \/ Wake(p) \/ Stop(p) \/ OfferFinished(p) \/ AwaitSuccess(p)
    \/ AwaitNoPollers \/ AwaitClosing \/ AwaitTimeout

ProbeSpec == InitOverlap /\ [][NextProbe]_vars

\* The steps of the prober and its pollers that need nothing from outside the
\* process: a select with a ready case is left, a goroutine that can return
\* does.  The timers are not among them, and an answer of the container is only
\* once finished is closed: req.Cancel = finished ends a pending request, while
\* before that http.DefaultClient sets no limit on a request.
SysProbe ==
    \/ RunObtain(P) \/ RunCreate(P) \/ RunStart(P)
    \/ (killed(P) /\ RunWait(P)) \/ RunClosingFall(P)
    \/ CopyEnd(P) \/ CopyErrClose(P) \/ Drain(P)
    \/ ForwardFailed(P) \/ ForwardDying(P)
    \/ WatchFailed(P) \/ WatchClosing(P) \/ WatchReady(P)
    \/ ProbeEnter
    \/ \E p \in Pollers :
         \/ \E r \in Answers : finished /\ Poll(p, r)
         \/ Stop(p) \/ OfferFinished(p) \/ AwaitSuccess(p)
    \/ AwaitNoPollers \/ AwaitClosing

ProbeFairSpec == ProbeSpec /\ WF_vars(SysProbe)

\* The first generation from its trigger to the removal of its rules, with
\* rule deletions that can fail.
NextTeardown ==
    \/ (i = 0 /\ LoopEvent)
    \/ Shutdown
    \/ RunObtain(P) \/ RunCreate(P) \/ RunStart(P) \/ RunWait(P) \/ RunClosingFall(P)
    \/ AwaitOk(P) \/ AwaitErr(P)
    \/ Drain(P) \/ ForwardFailed(P) \/ ForwardDying(P)
    \/ WatchFailed(P) \/ WatchClosing(P) \/ WatchReady(P)
    \/ FlipOk(P) \/ FlipFail(P) \/ FlipErrSend(P) \/ FlipErrPanic(P)
    \/ \E bad \in SUBSET Rule : RemovalWith(P, bad)

TeardownSpec == InitOverlap /\ [][NextTeardown]_vars

\* The choice of the image source for every first argument up to MaxNameLen
\* characters, and Obtain of the working directory source.
InitSource ==
    /\ InitWith(<<>>)
    /\ first \in Names
    /\ InitSrc
    /\ cores = 1
    /\ InitSub

NextSource ==
    \/ ChooseSource
    \/ ObtainBuild
    \/ \E ok, runtime \in BOOLEAN : BuildReturns(ok, runtime)
    \/ \E ok \in BOOLEAN : DockerRunCreate(ok)
    \/ \E ok \in BOOLEAN : AttachReturns(ok)
    \/ StreamEnds
    \/ SelectDetached

SourceSpec == InitSource /\ [][NextSource]_vars

\* Every call returns and every goroutine that can go on does; that a stream
\* breaks is up to the environment.
SysSource ==
    \/ ChooseSource
    \/ ObtainBuild
    \/ \E ok, runtime \in BOOLEAN : BuildReturns(ok, runtime)
    \/ \E ok \in BOOLEAN : DockerRunCreate(ok)
    \/ \E ok \in BOOLEAN : AttachReturns(ok)
    \/ SelectDetached

SourceFairSpec == SourceSpec /\ WF_vars(SysSource)

\* PrepSubmodules on a checkout with MaxSubs submodules, each with up to
\* MaxSubs submodules of its own, on a machine with up to MaxCores cores.
InitPrep ==
    /\ InitWith(<<>>)
    /\ first = <<>>
    /\ InitSrc
    /\ cores \in 1 .. MaxCores
    /\ InitSub

NextSub ==
    \/ PrepStart
    \/ \E t \in Subs : Acquire(t)
    \/ \E t \in Subs : PrepErr(t)
    \/ \E t \in Subs : \E k \in 0 .. MaxSubs : Recurse(t, k)
    \/ \E t \in Subs : \E n \in Subs : NestAcquire(t, n)
    \/ \E t \in Subs : \E n \in Subs : NestFinish(t, n)
    \/ \E t \in Subs : NestedReturn(t)

SubSpec == InitPrep /\ [][NextSub]_vars

\* imageRef on its own, applied to every name up to MaxNameLen characters.
InitRef == (\E name \in Names : InitWith(name)) /\ first = <<>> /\ InitSrc /\ cores = 1 /\ InitSub

RefSpec == InitRef /\ [][CreateRef]_vars

----------------------------------------------------------------------------
\* Properties.

\* Generation a stands before generation b in the sequence s.
Before(s, a, b) ==
    \E m, n \in 1 .. Len(s) : m < n /\ s[m] = a /\ s[n] = b

\* flipper has received candidate c in this step.
Receives(c) == handed' = Append(handed, c)

\* flip has failed for c and flipper is past it.
FlipFailed(c) == c \in Range(handed) /\ c \notin Range(promoted) /\ cur # c

\* C1: a generation waits in flips, has been received by flipper, has rules
\* installed or is live only if its Ready latch has fallen.
C1_ReadyBeforeHandover ==
    \A c \in Gens :
        (c \in Range(sendq) \/ c \in Range(handed) \/ cur = c \/ live = c
            \/ rules[c] # {})
        => ready[c]

C1_Witness == \E c \in Gens : live = c /\ rules[c] = Rule /\ ready[c]

\* C2: when flipper receives a candidate whose Failed or Closing has fallen
\* while another generation is live, the live pointer stays with that
\* generation and no grace goroutine is started to fall its Closing.
C2_FailedNewLeavesLive ==
    [][\A c \in Gens :
          (Receives(c) /\ live # Nil /\ (failed[c] \/ closing[c]))
          => (live' = live /\ grace' = grace)]_vars

\* C3: in overlap mode a generation whose Ready has not fallen never reaches
\* flips, nothing but a successful flip moves the live pointer, and the live
\* generation has no close pending in flipper and keeps every rule of its flip
\* for as long as its Closing is un-fallen.
C3_FailedNewKeepsOld ==
    ~disableOverlap =>
        /\ Nil \notin Range(sendq)
        /\ \A c \in Gens :
              ~ready[c] => (c \notin Range(sendq) /\ c \notin Range(handed))
        /\ live # Nil =>
              /\ promoted # <<>> /\ live = promoted[Len(promoted)]
              /\ live \notin grace
              /\ ~closing[live] => rules[live] = Rule

C3_Witness ==
    /\ ~disableOverlap
    /\ live = 0 /\ ~closing[0] /\ rules[0] = Rule
    /\ \E c \in Gens : c > 0 /\ failed[c] /\ ~ready[c] /\ wpc[c] = "done"

\* C4: at most two generations have firewall rules installed at any instant.
C4_AtMostTwoWithRules == Cardinality({c \in Gens : rules[c] # {}}) <= 2

C6_FailedFlipLeavesNoRule ==
    \A c \in Gens : (FlipFailed(c) /\ rem[c] = "done") => rules[c] = {}

\* C7: a failed flip leaves the live pointer alone and starts no grace
\* goroutine, and flipper leaves it with the candidate's Failed fallen and
\* goes back to receiving: it does not die in it.
C7_FailedFlipGoesOn ==
    [][\A c \in Gens :
          /\ (Receives(c) /\ fpc' = "err") => (live' = live /\ grace' = grace)
          /\ (fpc = "err" /\ cur = c /\ (fpc' # fpc \/ (crashed' /\ cpc' = cpc)))
             => (failed'[c] /\ fpc' = "recv" /\ ~crashed'
                 /\ live' = live /\ grace' = grace)]_vars

\* C8: a generation whose Superceded fell before its Ready is never sent on flips.
C8_SupercededNeverHanded == \A c \in supFirst : c \notin Range(sendq)

\* C9: flipper never promotes a generation after one whose Ready fell later.
C9_PromotedInReadyOrder ==
    [][\A c \in Gens :
          promoted' = Append(promoted, c)
          => ~\E h \in Range(promoted) : Before(readyOrder, c, h)]_vars

\* C10: in the step in which a generation's Ready falls, its Failed has not fallen.
C10_ReadyFallsUnfailed ==
    [][\A c \in Gens : (~ready[c] /\ ready'[c]) => ~failed[c]]_vars

\* C11: in the step in which a generation's Ready falls, its Closing has not fallen.
C11_ReadyNotAfterClosing ==
    [][\A c \in Gens : (~ready[c] /\ ready'[c]) => ~closing[c]]_vars

\* The container of generation c runs and its log stream is up.
Healthy(c) == rpc[c] = "wait" /\ cpc[c] = "run"

Handover(k) == live = k /\ ready[k + 1] /\ wpc[k + 1] \in {"select", "send"}

Due(c) ==
    \/ failed[c]
    \/ superceded[c] /\ c \notin Range(promoted)
    \/ c \in grace
    \/ rpc[c] \in {"closed", "done"}
    \/ dying /\ wpc[c] # "none"

\* C14: the Closing latch of every such generation eventually falls.
C14_ClosingEventuallyFalls == \A c \in Gens : Due(c) ~> closing[c]

\* The process has exited with status 0 and left nothing behind: the Closing
\* of every generation created has fallen, every removal goroutine has run
\* every inverse collected, and the WaitGroup is at zero.
CleanExit ==
    /\ exited /\ ~crashed /\ wg = 0
    /\ \A c \in Gens :
          /\ wpc[c] # "none" => closing[c]
          /\ rem[c] # "wait" /\ invoked[c] = removal[c]

\* C15: after the dying latch has fallen the process comes to a clean exit.
C15_ShutdownDrains == dying ~> CleanExit

\* C16: no failure of a generation stops the process.
C16_FailureNeverStopsProcess == ~crashed

\* C17: with disableOverlap set, flipper makes a generation live only when the
\* live pointer is empty and the Closing of every generation that was live
\* before has fallen.
C17_NoOverlapWhenDisabled ==
    [][disableOverlap =>
          \A c \in Gens :
              promoted' = Append(promoted, c)
              => (live = Nil /\ \A g \in Range(promoted) : closing[g])]_vars

\* C18: once the dying latch has fallen, loop creates no generation.
C18_NoGenerationAfterDying ==
    [][dying => \A c \in Gens : wpc[c] = "none" => wpc'[c] = "none"]_vars

\* C19: when Run has returned, the generation's Closing has fallen.
C19_RunFallsClosing == \A c \in Gens : rpc[c] = "done" => closing[c]

\* Run has returned because the container exited, and nothing else has fallen
\* the Closing of the generation.
C19_Witness ==
    \E c \in Gens :
        /\ rpc[c] = "done" /\ closing[c]
        /\ ~failed[c] /\ ~drain[c] /\ cpc[c] = "done" /\ ~superceded[c] /\ ~dying
        /\ c \notin Range(handed) /\ wpc[c] = "done"

\* C20: once a generation's Failed latch has fallen, its Closing latch falls.
C20_FailedLeadsToClosing == \A c \in Gens : failed[c] ~> closing[c]

\* C21: the Obtained latch of a trigger event falls only when the Obtain call of
\* the generation created for it has returned, and it does fall once that call
\* has returned, with or without an image.
C21_EventObtainedFalls ==
    /\ [](\A c \in Gens : evObtained[c] => (obtained[c] /\ rpc[c] \notin {"none", "obtain"}))
    /\ \A c \in Gens : (rpc[c] \notin {"none", "obtain"}) ~> evObtained[c]

\* C22: image acquisition is cancelled through Closing: when Closing has fallen
\* while Run is inside imageSource.Obtain, Run does not go on to create a
\* container for that generation.
C22_ClosingCancelsObtain ==
    [][\A c \in Gens : (closing[c] /\ rpc[c] = "obtain") => rpc'[c] # "create"]_vars

\* C23: when the Superceded of a generation has fallen, the generation with the
\* next index has been constructed already.
C23_SupercededHasSuccessor ==
    \A c \in Gens : superceded[c] => (c + 1 \in Gens /\ rpc[c + 1] # "none" /\ wpc[c + 1] # "none")

C23_Witness ==
    /\ superceded[0] /\ superceded[1] /\ ~superceded[2]
    /\ rpc[2] # "none"

\* C24: a poller that receives HTTP 404 retries: after the 404 it is waiting
\* for its next poll of that port.
C24_NotFoundRetries ==
    [][\A p \in Pollers :
          (polls'[p] = polls[p] + 1 /\ resp'[p] = "404") => pol'[p] = "sleep"]_vars

\* C25: AwaitListening does not return "no status checks succeeded" when a
\* poller has received 200 while the probe was undecided: a poller with an
\* unclaimed 200 has not returned, and the failure is never chosen over it.
C25_SuccessNotLost ==
    /\ [](awl = "nopollers" => \A p \in Pollers : resp[p] # "200")
    /\ [][(awl = "select" /\ \E p \in Pollers : pol[p] = "offer") => awl' # "nopollers"]_vars

C25_Witness ==
    /\ awl = "ok" /\ ready[P]
    /\ \E p, q \in Pollers : /\ pol[p] = "won" /\ resp[p] = "200"
                              /\ pol[q] = "gaveup"

\* C26: a poller that gives up ends only itself, and the probe fails with "no
\* status checks succeeded" only when every poller has returned, none of them
\* with a success.
C26_GiveUpEndsOnlyItself ==
    /\ [](awl = "nopollers" =>
            \A p \in Pollers : p <= exposed => (pol[p] = "gaveup" /\ resp[p] \notin {"none", "200"}))
    /\ [][\A p \in Pollers :
            (pol[p] = "poll" /\ pol'[p] = "gaveup") =>
                /\ awl' = awl
                /\ \A q \in Pollers \ {p} : pol'[q] = pol[q]]_vars

C26_Witness ==
    /\ awl = "nopollers" /\ failed[P] /\ exposed = 2
    /\ resp[1] = "malformed" /\ resp[2] = "500"
    /\ polls[1] = 1 /\ polls[2] = 2

\* C27: with no exposed port in the inspect snapshot the prober fails at once
\* without polling: Failed falls, Ready does not, and the generation is not
\* handed to flipper.
C27_NoPortsFailsAtOnce ==
    (exposed = 0 /\ awl # "none") =>
        /\ awl = "noports"
        /\ failed[P] /\ ~ready[P]
        /\ wpc[P] # "send"
        /\ \A p \in Pollers : pol[p] = "none" /\ polls[p] = 0

C27_Witness ==
    /\ exposed = 0 /\ awl = "noports"
    /\ failed[P] /\ closing[P] /\ wpc[P] = "done"

\* A poller goroutine is gone when it has returned, or with the process.
Gone(p) == pol[p] \in Returned \cup {"none"} \/ crashed

\* C28: once AwaitListening has returned, for whatever reason, every poller
\* goroutine eventually terminates.
C28_PollersTerminate ==
    finished ~> \A p \in Pollers : Gone(p)

C28_Witness ==
    /\ awl = "timeout" /\ ~crashed
    /\ pol[1] = "lost" /\ pol[2] = "stopped"

\* What C29 says imageRef returns: the split at the last ':' or '@' after the
\* last '/', and (name, "latest") when the last path component has neither.
LastSlash(s) ==
    IF \E j \in 1 .. Len(s) : s[j] = "/"
      THEN Greedy({j \in 1 .. Len(s) : s[j] = "/"})
      ELSE 0

TagSplits(s) == {k \in (LastSlash(s) + 1) .. Len(s) : s[k] \in Seps}

\* C29: for every image name imageRef splits at the last ':' or '@' that
\* follows the last '/', and returns (name, "latest") when the last path
\* component contains neither, so that a host:port is never taken for the tag.
C29_SplitsAfterLastSlash ==
    ref # <<>> =>
        ref = IF TagSplits(imageName) = {}
                THEN <<imageName, Latest>>
                ELSE <<SubSeq(imageName, 1, Greedy(TagSplits(imageName)) - 1),
                       SubSeq(imageName, Greedy(TagSplits(imageName)) + 1, Len(imageName))>>

\* C30: when imageRef finds a tag or digest, repo, separator and tag joined give
\* the name back; otherwise the repo is the name and the tag is "latest", which
\* is the case at least for every name without ':' and '@'.
C30_RoundTrip ==
    ref # <<>> =>
        /\ \/ \E sep \in Seps : ref[1] \o <<sep>> \o ref[2] = imageName
           \/ ref = <<imageName, Latest>>
        /\ (\A k \in 1 .. Len(imageName) : imageName[k] \notin Seps) => ref = <<imageName, Latest>>

C30_Witness ==
    /\ imageName = <<"/", "a", "@", "a">>
    /\ ref = << <<"/", "a">>, <<"a">> >>

\* C34: the failures of Run before the probe.  An Obtain error falls Obtained
\* and Failed and returns -2, and no container is created; a Create error falls
\* Failed and returns -1; a Start error removes the container, falls Failed and
\* returns -1, and neither the prober nor the log stream is started.
C34_PreProbeFailures ==
    /\ [][\A c \in Gens :
            (rpc'[c] = "closed" /\ rpc[c] \in {"obtain", "create", "start"}) =>
                /\ failed'[c]
                /\ obtained'[c]
                /\ ret'[c] = IF rpc[c] = "obtain" THEN "-2" ELSE "-1"
                /\ deleted'[c] = (rpc[c] = "start")
                /\ apc'[c] = "none" /\ cpc'[c] = "none"]_vars
    /\ [](\A c \in Gens :
            (ret[c] \in {"-1", "-2"}) => (failed[c] /\ apc[c] = "none" /\ cpc[c] = "none" /\ ~ready[c]))

C34_Witness ==
    \E c \in Gens : /\ ret[c] = "-1" /\ deleted[c]
                     /\ failed[c] /\ closing[c] /\ rpc[c] = "done"

\* C40: MonitorHookbot hands a webhook to the supervisor only when the Obtained
\* of every webhook it handed over before has fallen, so that a generation made
\* for a webhook is superseded by the generation of the next webhook only when
\* its own Obtain has returned.
C40_HookWaitsForObtained ==
    /\ [][hooked' # hooked =>
            \A c \in hooked : evObtained[c] /\ rpc[c] \notin {"none", "obtain"}]_vars
    /\ [][\A c \in hooked :
            (superceded'[c] /\ ~superceded[c] /\ (c + 1) \in hooked') => rpc[c] # "obtain"]_vars

C40_Witness ==
    /\ {0, 1} \subseteq hooked
    /\ superceded[0] /\ evObtained[0] /\ rpc[1] = "obtain"

\* C35: every container that was started is sent a kill, or has been removed,
\* after the Closing of its generation has fallen, also when Closing fell
\* before the container was started.
C35_StartedIsKilled ==
    \A c \in Gens : ((cpc[c] # "none" \/ deleted[c]) /\ closing[c]) ~> (kill[c] \/ deleted[c])

\* C36: the removal goroutine invokes every collected inverse, whatever the
\* inverses before it returned, and every inverse attempts both of its
\* deletions: no rule is left but those whose own deletion failed.
C36_TeardownAttemptsAll ==
    \A c \in Gens :
        rem[c] = "done" =>
            /\ invoked[c] = removal[c]
            /\ tried[c] = removed(removal[c])
            /\ rules[c] \cap removed(removal[c]) \subseteq delBad[c]

C36_Witness ==
    /\ rem[P] = "done" /\ Len(invoked[P]) = 2
    /\ delBad[P] = {<<SlotSeq[1], "PREROUTING">>}
    /\ rules[P] = delBad[P]
    /\ tried[P] = Rule

C38_NoSendOnClosed ==
    [][/\ \A c \in Gens : (errorsClosed(c) /\ cpc[c] = "run") => cpc'[c] \in {"run", "done"} /\ ~crashed'
       /\ \A c \in Gens : (errorsClosed(c) /\ fpc = "err" /\ cur = c) => ~crashed']_vars

\* C39: the index of the live generation never decreases: flipper never
\* replaces the live generation with one that was created before it.
C39_LiveIndexNeverDecreases ==
    [][(live # Nil /\ live' # Nil) => live' >= live]_vars

\* What C31 says of a pull reference: the repository is the text before the
\* first ':', the tag the text after it, "latest" without a ':'.
PullReference(s) == s # <<>> /\ s # <<"@">> /\ s[1] # ":"

PullExpected(s) ==
    LET parts == FindStringSubmatch(s)
    IN  parts[2] \o <<":">> \o (IF \E k \in 1 .. Len(s) : s[k] = ":" THEN parts[3] ELSE Latest)

\* C31: for every pull reference DockerPullSourceFromImage yields a source
\* whose Obtain pulls repo:tag, with the tag "latest" when none is given.
C31_PullsRepoTag ==
    (PullReference(first) /\ (imageSource.kind # "none" \/ crashed)) =>
        /\ ~crashed
        /\ imageSource.kind = "pull"
        /\ PullName(imageSource) = PullExpected(first)

\* C32: with a runtime/Dockerfile and no failing call, Obtain of the working
\* directory source gets through DockerRun and the second build and returns
\* the runtime image.
C32_RuntimeImageReturned ==
    (opc = "runtime" /\ faults = 0) ~> (opc = "done-runtime" \/ faults > 0)

\* The preparations at work: the workers inside prepSubmodule that are not
\* waiting for the workers of a nested call.
working ==
    {<<t, 0>> : t \in {u \in Subs : sub[u] = "prep"}}
        \cup {tn \in Subs \X Subs : nest[tn[1]][tn[2]] = "prep"}

\* C33: at no time are more than cores (runtime.NumCPU()) submodule
\* preparations in progress, those of nested submodules included.
C33_AtMostCoresInProgress == Cardinality(working) <= cores
====
